---- MODULE Spec2Model ----
(***************************************************************************)
(* Model of src/charge.rs: the Charge quantity type (one f64 field,        *)
(* coulombs), its unit constructors and accessors, its Measurement         *)
(* implementation and the operators implement_measurement! gives it.       *)
(*                                                                         *)
(* f64 is modelled as an IEEE-754 style floating-point format of reduced   *)
(* size with radix 10: Digits significant digits, round-half-to-even,      *)
(* gradual underflow, overflow to infinity, signed zero, +-inf and NaN.    *)
(* The decimal literals of the source (1e-15, 10.0, 0.0002, ...) are       *)
(* converted to the format by Lit, rounding where they need more than      *)
(* Digits digits (SPEED_OF_LIGHT does).  A multiplication or division by   *)
(* 10.0 is exact in radix 10 unless it overflows or underflows; the        *)
(* conversions through 10.0 * SPEED_OF_LIGHT round, as they do in f64.     *)
(***************************************************************************)
EXTENDS Integers, Sequences, FiniteSets, TLC

(* ------------------------- the number format --------------------------- *)

\* Significant decimal digits of a value (f64 carries 53 bits).
Digits == 7

\* The leading digit of a normal value has a decimal exponent in
\* -ExpRange .. ExpRange (f64: about -308 .. 308).
ExpRange == 22

Pow10(n) == IF n <= 0 THEN 1 ELSE [i \in 0..9 |-> 10^i][n]

Base == 10^Digits
MinNormal == 10^(Digits - 1)
Emin == 0 - ExpRange - (Digits - 1)
Emax == ExpRange - (Digits - 1)

\* A value is a record: kind k, sign s (1 = negative), integer mantissa m
\* and the decimal exponent e of the mantissa's last digit.
Fin(s, m, e) == [k |-> "fin", s |-> s, m |-> m, e |-> e]
Inf(s) == [k |-> "inf", s |-> s, m |-> 0, e |-> 0]
NaN == [k |-> "nan", s |-> 0, m |-> 0, e |-> 0]
Zero(s) == Fin(s, 0, Emin)

IsNaN(x) == x.k = "nan"
IsInf(x) == x.k = "inf"
IsFinite(x) == x.k = "fin"
IsZero(x) == x.k = "fin" /\ x.m = 0

\* What is known of the part of an exact result below the last digit kept:
\* 0 nothing there, 1 below half a unit, 2 exactly half, 3 above half.
DropClass(d, g) ==
  IF d < 5 THEN (IF d = 0 /\ g = 0 THEN 0 ELSE 1)
  ELSE IF d = 5 THEN (IF g = 0 THEN 2 ELSE 3)
  ELSE 3

\* Round n * 10^e, with g the class of what lies below n, to the format.
RECURSIVE Round(_, _, _, _)
Round(s, n, e, g) ==
  IF n = 0 /\ g = 0 THEN Zero(s)
  ELSE IF n >= Base \/ e < Emin
    THEN Round(s, n \div 10, e + 1, DropClass(n % 10, g))
  ELSE IF n < MinNormal /\ e > Emin /\ g = 0
    THEN Round(s, n * 10, e - 1, 0)
  ELSE LET up == g = 3 \/ (g = 2 /\ n % 2 = 1)
           n1 == IF up THEN n + 1 ELSE n
           n2 == IF n1 = Base THEN MinNormal ELSE n1
           e2 == IF n1 = Base THEN e + 1 ELSE e
       IN  IF e2 > Emax THEN Inf(s) ELSE Fin(s, n2, e2)

\* The decimal literal (-1)^s * m * 10^e of the source, as a value.
Lit(s, m, e) == Round(s, m, e, 0)

\* A nonzero finite mantissa brought to Digits digits, <<m, e>>; the
\* exponent may leave the format's range (used inside one operation only).
RECURSIVE Scale(_, _)
Scale(m, e) == IF m >= MinNormal THEN <<m, e>> ELSE Scale(m * 10, e - 1)

(* ----------------------------- comparison ------------------------------ *)

\* magnitude order of two nonzero finite values
MagLess(x, y) ==
  LET p == Scale(x.m, x.e)
      q == Scale(y.m, y.e)
  IN  p[2] < q[2] \/ (p[2] = q[2] /\ p[1] < q[1])

\* f64 ==, <, <=, >, >= : NaN is unordered, -0 equals +0
Feq(x, y) ==
  /\ ~IsNaN(x) /\ ~IsNaN(y)
  /\ \/ (IsZero(x) /\ IsZero(y))
     \/ x = y

Flt(x, y) ==
  /\ ~IsNaN(x) /\ ~IsNaN(y)
  /\ ~Feq(x, y)
  /\ IF IsZero(x) THEN y.s = 0
     ELSE IF IsZero(y) THEN x.s = 1
     ELSE IF x.s # y.s THEN x.s = 1
     ELSE IF x.s = 0
       THEN IsInf(y) \/ (IsFinite(x) /\ MagLess(x, y))
       ELSE IsInf(x) \/ (IsFinite(y) /\ MagLess(y, x))

Fle(x, y) == Flt(x, y) \/ Feq(x, y)
Fgt(x, y) == Flt(y, x)
Fge(x, y) == Fle(y, x)
Fne(x, y) == ~Feq(x, y)

\* f64::abs
Fabs(x) == IF IsNaN(x) THEN x ELSE [x EXCEPT !.s = 0]
Fneg(x) == IF IsNaN(x) THEN x ELSE [x EXCEPT !.s = 1 - x.s]

(* ----------------------------- arithmetic ------------------------------ *)

Xor(s, t) == IF s = t THEN 0 ELSE 1

\* The exact product a * b of two mantissas as <<q, r>>, a * b = q*Base + r,
\* taking the digits of b from the most significant one.
RECURSIVE MulDigits(_, _, _, _, _)
MulDigits(a, b, i, q, r) ==
  IF i = 0 THEN <<q, r>>
  ELSE LET d == (b \div Pow10(i - 1)) % 10
           t == r * 10 + a * d
       IN  MulDigits(a, b, i - 1, q * 10 + t \div Base, t % Base)

\* Digits are moved from r into q until q has Digits digits or r is used up.
RECURSIVE MulRound(_, _, _, _)
MulRound(s, q, r, e) ==
  IF q < MinNormal /\ r # 0
    THEN MulRound(s, q * 10 + r \div MinNormal, (r % MinNormal) * 10, e - 1)
  ELSE Round(s, q, e,
             IF r = 0 THEN 0 ELSE IF 2 * r < Base THEN 1
             ELSE IF 2 * r = Base THEN 2 ELSE 3)

\* f64 *
Fmul(x, y) ==
  IF IsNaN(x) \/ IsNaN(y) THEN NaN
  ELSE IF IsInf(x) \/ IsInf(y)
    THEN (IF IsZero(x) \/ IsZero(y) THEN NaN ELSE Inf(Xor(x.s, y.s)))
  ELSE IF x.m = 0 \/ y.m = 0 THEN Zero(Xor(x.s, y.s))
  ELSE LET p == MulDigits(x.m, y.m, Digits, 0, 0)
       IN  MulRound(Xor(x.s, y.s), p[1], p[2], x.e + y.e + Digits)

\* Long division of a by b (both of Digits digits): quotient digits are
\* appended to n until it has Digits + 1 of them.
RECURSIVE DivDigits(_, _, _, _, _)
DivDigits(s, n, rem, b, e) ==
  IF n >= Base THEN Round(s, n, e, IF rem = 0 THEN 0 ELSE 1)
  ELSE DivDigits(s, n * 10 + (rem * 10) \div b, (rem * 10) % b, b, e - 1)

\* f64 /
Fdiv(x, y) ==
  IF IsNaN(x) \/ IsNaN(y) THEN NaN
  ELSE IF IsInf(x) THEN (IF IsInf(y) THEN NaN ELSE Inf(Xor(x.s, y.s)))
  ELSE IF IsInf(y) THEN Zero(Xor(x.s, y.s))
  ELSE IF y.m = 0 THEN (IF x.m = 0 THEN NaN ELSE Inf(Xor(x.s, y.s)))
  ELSE IF x.m = 0 THEN Zero(Xor(x.s, y.s))
  ELSE LET p == Scale(x.m, x.e)
           q == Scale(y.m, y.e)
       IN  DivDigits(Xor(x.s, y.s), p[1] \div q[1], p[1] % q[1], q[1],
                     p[2] - q[2])

\* The class of the fraction m / 10^d, 0 <= m < 10^d
FracClass(m, d) ==
  IF m = 0 THEN 0
  ELSE IF d > Digits THEN 1
  ELSE IF 2 * m < Pow10(d) THEN 1
  ELSE IF 2 * m = Pow10(d) THEN 2 ELSE 3

\* Sum of two nonzero finite values, hi the one of larger magnitude; the
\* sum is formed one digit below hi's last digit.
AddMag(hi, lo) ==
  LET p == Scale(hi.m, hi.e)
      q == Scale(lo.m, lo.e)
      d == p[2] - q[2]
      A == p[1] * 10
      \* lo in units of 10^(p[2] - 1): integer part and class of the rest
      Bi == IF d <= 1 THEN q[1] * Pow10(1 - d)
            ELSE IF d - 1 > Digits THEN 0
            ELSE q[1] \div Pow10(d - 1)
      Bf == IF d <= 1 THEN 0
            ELSE IF d - 1 > Digits THEN 1
            ELSE FracClass(q[1] % Pow10(d - 1), d - 1)
  IN  IF hi.s = lo.s THEN Round(hi.s, A + Bi, p[2] - 1, Bf)
      ELSE IF Bf = 0 THEN Round(IF A = Bi THEN 0 ELSE hi.s, A - Bi, p[2] - 1, 0)
      ELSE Round(hi.s, A - Bi - 1, p[2] - 1, 4 - Bf)

\* f64 +
Fadd(x, y) ==
  IF IsNaN(x) \/ IsNaN(y) THEN NaN
  ELSE IF IsInf(x) THEN (IF IsInf(y) /\ x.s # y.s THEN NaN ELSE x)
  ELSE IF IsInf(y) THEN y
  ELSE IF x.m = 0 /\ y.m = 0 THEN Zero(IF x.s = 1 /\ y.s = 1 THEN 1 ELSE 0)
  ELSE IF x.m = 0 THEN y
  ELSE IF y.m = 0 THEN x
  ELSE IF MagLess(x, y) THEN AddMag(y, x) ELSE AddMag(x, y)

\* f64 - (binary)
Fsub(x, y) == Fadd(x, Fneg(y))

(* ------------------------------ charge.rs ------------------------------ *)

\* pub const SPEED_OF_LIGHT: f64 = 299_792_458.0;
SPEED_OF_LIGHT == 299792458

\* the literal 10.0 of the conversions
Ten == Lit(0, 1, 1)
SpeedOfLight == Lit(0, SPEED_OF_LIGHT, 0)

\* struct Charge { coulombs: f64 }
Charge(c) == [coulombs |-> c]

from_coulombs(coulombs) == Charge(coulombs)

\* divides where the source multiplies
from_abcoulombs_Div(abcoulombs) == from_coulombs(Fdiv(abcoulombs, Ten))
\* the factor 10.0 left out
from_abcoulombs_NoFactor(abcoulombs) == from_coulombs(abcoulombs)

from_abcoulombs(abcoulombs) == from_coulombs(Fmul(abcoulombs, Ten))
from_statcoulombs(statcoulombs) ==
  from_coulombs(Fdiv(statcoulombs, Fmul(Ten, SpeedOfLight)))

as_coulombs(self) == self.coulombs

\* multiplies where the source divides
as_abcoulombs_Mul(self) == Fmul(self.coulombs, Ten)
\* the factor 10.0 left out
as_statcoulombs_NoTen(self) == Fmul(self.coulombs, SpeedOfLight)

as_abcoulombs(self) == Fdiv(self.coulombs, Ten)
as_statcoulombs(self) == Fmul(self.coulombs, Fmul(Ten, SpeedOfLight))

\* impl Measurement for Charge
\* the value in abcoulombs taken for the base-unit value
as_base_units_Abcoulombs(self) == Fdiv(self.coulombs, Ten)
\* the base-unit value taken for abcoulombs
from_base_units_Abcoulombs(units) == from_abcoulombs(units)

as_base_units(self) == self.coulombs
from_base_units(units) == from_coulombs(units)
get_base_units_name(self) == "C"

\* The table with the rows of kC and MC exchanged.
listSwapped ==
  << <<"fC", Lit(0, 1, -15)>>, <<"pC", Lit(0, 1, -12)>>,
     <<"nC", Lit(0, 1, -9)>>, <<"uC", Lit(0, 1, -6)>>,
     <<"mC", Lit(0, 1, -3)>>, <<"C", Lit(0, 1, 0)>>,
     <<"MC", Lit(0, 1, 6)>>, <<"kC", Lit(0, 1, 3)>>,
     <<"GC", Lit(0, 1, 9)>>, <<"TC", Lit(0, 1, 12)>>,
     <<"PC", Lit(0, 1, 15)>>, <<"EC", Lit(0, 1, 18)>> >>

\* The table of get_appropriate_units, smallest to largest, as
\* <<symbol, multiplier>>; "uC" stands for "\u{00B5}C".
list ==
  << <<"fC", Lit(0, 1, -15)>>,
     <<"pC", Lit(0, 1, -12)>>,
     <<"nC", Lit(0, 1, -9)>>,
     <<"uC", Lit(0, 1, -6)>>,
     <<"mC", Lit(0, 1, -3)>>,
     <<"C", Lit(0, 1, 0)>>,
     <<"kC", Lit(0, 1, 3)>>,
     <<"MC", Lit(0, 1, 6)>>,
     <<"GC", Lit(0, 1, 9)>>,
     <<"TC", Lit(0, 1, 12)>>,
     <<"PC", Lit(0, 1, 15)>>,
     <<"EC", Lit(0, 1, 18)>> >>

\* Measurement::pick_appropriate_units: from the end of the ascending table,
\* the first entry whose multiplier is <= the magnitude; the first entry of
\* the table when there is none.
RECURSIVE PickFrom(_, _, _)
PickFrom(l, mag, i) ==
  IF i <= 1 THEN l[1]
  ELSE IF Fle(l[i][2], mag) THEN l[i]
  ELSE PickFrom(l, mag, i - 1)

pick_appropriate_units(self, l) == PickFrom(l, Fabs(as_base_units(self)), Len(l))

\* kC entered as 1e2
get_appropriate_units_kC(self) ==
  pick_appropriate_units(self, [list EXCEPT ![7] = <<"kC", Lit(0, 1, 2)>>])

\* the table without its first row
get_appropriate_units_NoFirst(self) ==
  pick_appropriate_units(self, SubSeq(list, 2, Len(list)))

get_appropriate_units(self) == pick_appropriate_units(self, list)

\* implement_measurement! { Charge }: the operators, all on base-unit values
Add(self, rhs) == from_base_units(Fadd(as_base_units(self), as_base_units(rhs)))
Sub(self, rhs) == from_base_units(Fsub(as_base_units(self), as_base_units(rhs)))
DivQ(self, rhs) == Fdiv(as_base_units(self), as_base_units(rhs))
MulF(self, rhs) == from_base_units(Fmul(as_base_units(self), rhs))
FMul(lhs, rhs) == MulF(rhs, lhs)
DivF(self, rhs) == from_base_units(Fdiv(as_base_units(self), rhs))
Eq(self, other) == Feq(as_base_units(self), as_base_units(other))
Ne(self, other) == ~Eq(self, other)
Lt(self, other) == Flt(as_base_units(self), as_base_units(other))
Le(self, other) == Fle(as_base_units(self), as_base_units(other))
Gt(self, other) == Fgt(as_base_units(self), as_base_units(other))
Ge(self, other) == Fge(as_base_units(self), as_base_units(other))

(* ------------------------------ the inputs ----------------------------- *)

Units == {"C", "abC", "statC"}

\* Charge::from_<unit>(x)
Construct(u, x) ==
  IF u = "C" THEN from_coulombs(x)
  ELSE IF u = "abC" THEN from_abcoulombs(x)
  ELSE from_statcoulombs(x)

\* self.as_<unit>()
Access(u, self) ==
  IF u = "C" THEN as_coulombs(self)
  ELSE IF u = "abC" THEN as_abcoulombs(self)
  ELSE as_statcoulombs(self)

MaxFinite == Fin(0, Base - 1, Emax)
Huge == Lit(0, 9, ExpRange)
Tiny == Fin(0, 1, Emin)
Small == Lit(0, 1, 5 - ExpRange)

\* values the operands are built from: those of the tests, the thresholds
\* of the table and values around them, both ends of the range, inf and NaN
InputsA ==
  { Zero(0), Lit(0, 2, 0), Lit(0, 10, 0), Lit(0, 20, 0), Lit(0, 1234, -3),
    Lit(0, 2, -4), Lit(0, 10000, 0), Lit(0, 1, -15), Lit(0, 5, -16),
    Lit(0, 1500, 0), Lit(1, 1500, 0), Lit(0, 1, 18), Lit(0, 3, 18),
    Huge, MaxFinite, Tiny, Small, Inf(0), Inf(1), NaN }

OperandsB ==
  ({"C"} \X { Zero(0), Lit(0, 2, 0), Lit(0, 4, 0), Lit(0, 40, 0),
              Lit(0, 150, 0), Lit(1, 5, ExpRange - 1), Huge, Tiny,
              Inf(0), NaN })
  \cup ({"abC"} \X { Lit(0, 2, 0), Lit(0, 4, 0), Huge, Inf(0), NaN })
  \cup ({"statC"} \X { Lit(0, 2, 0), Lit(0, 40, 0), Small })

Scalars ==
  { Zero(0), Lit(0, 2, 0), Lit(0, 4, 0), Lit(0, 3, -1), Huge, Tiny,
    Inf(0), NaN }

(* --------------------------- the state machine ------------------------- *)

VARIABLES
  xa, ua, a,   \* let a = Charge::from_<ua>(xa)
  xb, ub, b,   \* let b = Charge::from_<ub>(xb)
  k,           \* the f64 operand of the last operation, 1.0 when it had none
  op,          \* the last operation evaluated
  res          \* its value: f an f64 (a Charge's coulombs), t a bool,
               \* sym a unit symbol or name

vars == <<xa, ua, a, xb, ub, b, k, op, res>>

One == Lit(0, 1, 0)
NoRes == [f |-> Zero(0), t |-> FALSE, sym |-> ""]
F64(x) == [f |-> x, t |-> FALSE, sym |-> ""]
Quantity(q) == [f |-> q.coulombs, t |-> FALSE, sym |-> ""]
Bool(v) == [f |-> Zero(0), t |-> v, sym |-> ""]
Str(n) == [f |-> Zero(0), t |-> FALSE, sym |-> n]
UnitsOf(p) == [f |-> p[2], t |-> FALSE, sym |-> p[1]]

Init ==
  /\ xa \in InputsA /\ ua \in Units
  /\ a = Construct(ua, xa)
  /\ \E p \in OperandsB : ub = p[1] /\ xb = p[2]
  /\ b = Construct(ub, xb)
  /\ k = One
  /\ op = "new"
  /\ res = NoRes

\* an operation is evaluated on the operands, after any others
Eval(name, value) ==
  /\ op' = name
  /\ res' = value
  /\ k' = One
  /\ UNCHANGED <<xa, ua, a, xb, ub, b>>

\* as_abcoulombs writing its value back into self
CallAsAbcoulombsInPlace ==
  /\ op' = "as_abcoulombs"
  /\ res' = F64(as_abcoulombs(a))
  /\ a' = Charge(as_abcoulombs(a))
  /\ k' = One
  /\ UNCHANGED <<xa, ua, xb, ub, b>>

CallAsCoulombs == Eval("as_coulombs", F64(as_coulombs(a)))
CallAsAbcoulombs == Eval("as_abcoulombs", F64(as_abcoulombs(a)))
CallAsStatcoulombs == Eval("as_statcoulombs", F64(as_statcoulombs(a)))
CallAsBaseUnits == Eval("as_base_units", F64(as_base_units(a)))
CallFromBaseUnits == Eval("from_base_units", Quantity(from_base_units(xa)))
CallGetBaseUnitsName == Eval("get_base_units_name", Str(get_base_units_name(a)))
CallGetAppropriateUnits ==
  Eval("get_appropriate_units", UnitsOf(get_appropriate_units(a)))

OpEq == Eval("eq", Bool(Eq(a, b)))
OpNe == Eval("ne", Bool(Ne(a, b)))
OpLt == Eval("lt", Bool(Lt(a, b)))
OpLe == Eval("le", Bool(Le(a, b)))
OpGt == Eval("gt", Bool(Gt(a, b)))
OpGe == Eval("ge", Bool(Ge(a, b)))

OpAdd == Eval("add", Quantity(Add(a, b)))
OpSub == Eval("sub", Quantity(Sub(a, b)))
OpDivQ == Eval("div", F64(DivQ(a, b)))

\* a * k, k * a, a / k
EvalScalar(name, s, value) ==
  /\ op' = name
  /\ k' = s
  /\ res' = value
  /\ UNCHANGED <<xa, ua, a, xb, ub, b>>

OpMulF == \E s \in Scalars : EvalScalar("mul", s, Quantity(MulF(a, s)))
OpFMul == \E s \in Scalars : EvalScalar("rmul", s, Quantity(FMul(s, a)))
OpDivF == \E s \in Scalars : EvalScalar("divf", s, Quantity(DivF(a, s)))

\* (a + b) - b and (a * k) / k: the second operator applied to the first's value
Then(from, name, value) ==
  /\ op = from
  /\ op' = name
  /\ res' = value
  /\ UNCHANGED <<xa, ua, a, xb, ub, b, k>>

OpAddSub == Then("add", "add_sub", Quantity(Sub(Charge(res.f), b)))
OpMulDiv == Then("mul", "mul_div", Quantity(DivF(Charge(res.f), k)))

Next ==
  \/ CallAsCoulombs \/ CallAsAbcoulombs \/ CallAsStatcoulombs
  \/ CallAsBaseUnits \/ CallFromBaseUnits
  \/ CallGetBaseUnitsName \/ CallGetAppropriateUnits
  \/ OpEq \/ OpNe \/ OpLt \/ OpLe \/ OpGt \/ OpGe
  \/ OpAdd \/ OpSub \/ OpDivQ
  \/ OpMulF \/ OpFMul \/ OpDivF
  \/ OpAddSub \/ OpMulDiv

Spec == Init /\ [][Next]_vars

(* ------------------------- what the claims use ------------------------- *)

\* finite, nonzero and with all Digits digits: neither overflowed nor in
\* the subnormal range
IsNormal(x) == x.k = "fin" /\ x.m >= MinNormal

Abs(n) == IF n < 0 THEN 0 - n ELSE n

\* Two finite values agree within tolerance: their difference is at most
\* one unit of the last digit but one (a relative 10^(2 - Digits)).
Close(x, y) ==
  IF IsZero(x) \/ IsZero(y) THEN IsZero(x) /\ IsZero(y)
  ELSE /\ x.s = y.s
       /\ LET p == Scale(x.m, x.e)
              q == Scale(y.m, y.e)
              d == p[2] - q[2]
          IN  /\ d \in {-1, 0, 1}
              /\ Abs(p[1] * Pow10(d) - q[1] * Pow10(0 - d)) <= Pow10(1)

\* the same value: the same infinity, both NaN, or finite and within tolerance
Same(x, y) == x = y \/ (IsFinite(x) /\ IsFinite(y) /\ Close(x, y))

\* the table the claims name: fC = 1e-15 ... EC = 1e18, a factor 1000 apart
Symbols == <<"fC", "pC", "nC", "uC", "mC", "C", "kC", "MC", "GC", "TC", "PC", "EC">>
Threshold(i) == Lit(0, 1, 3 * i - 18)
Entry(i) == [f |-> Threshold(i), t |-> FALSE, sym |-> Symbols[i]]
Max(S) == CHOOSE n \in S : \A m \in S : m <= n
Magnitude == Fabs(as_base_units(a))
AtMost == {i \in 1..12 : Fle(Threshold(i), Magnitude)}

(* -------------------------------- claims -------------------------------- *)

\* C1: get_appropriate_units() returns the entry of the ascending table
\* fC = 1e-15 ... EC = 1e18 that is the last one whose multiplier is <= the
\* absolute base-unit value; v and -v select the same entry, a magnitude
\* equal to a multiplier selects that multiplier's entry and one strictly
\* between two adjacent multipliers selects the lower one.
C1_LastEntryAtMost ==
  op = "get_appropriate_units" =>
    /\ AtMost # {} => res = Entry(Max(AtMost))
    /\ res = UnitsOf(get_appropriate_units(Charge(Fneg(as_base_units(a)))))
    /\ \A i \in 1..12 : Magnitude = Threshold(i) => res = Entry(i)
    /\ \A i \in 1..11 :
         Flt(Threshold(i), Magnitude) /\ Flt(Magnitude, Threshold(i + 1))
           => res = Entry(i)

\* -1500 C lies between the thresholds of kC and MC and reads in kC
C1_Witness ==
  /\ op = "get_appropriate_units"
  /\ a.coulombs = Lit(1, 1500, 0)
  /\ res = Entry(7)

\* C2: get_appropriate_units() returns the first entry "fC" for a magnitude
\* of 0 or below 1e-15, the last entry "EC" for a magnitude above 1e18, and
\* always one of the 12 entries of the table.
C2_EndsOfTable ==
  op = "get_appropriate_units" =>
    /\ IsZero(Magnitude) \/ Flt(Magnitude, Threshold(1)) => res = Entry(1)
    /\ Flt(Threshold(12), Magnitude) => res = Entry(12)
    /\ \E i \in 1..12 : res = Entry(i)

\* a charge of 0 reads in fC
C2_Witness ==
  /\ op = "get_appropriate_units"
  /\ IsZero(a.coulombs)
  /\ res = Entry(1)

\* C10: the table handed to pick_appropriate_units has 12 rows, multipliers
\* strictly ascending from 1e-15 to 1e18, each 1000 times the one before,
\* distinct symbols and exactly one row of multiplier 1, whose symbol "C" is
\* get_base_units_name(); the base unit is the coulomb: as_base_units() is
\* as_coulombs() and from_base_units(x) is from_coulombs(x).
C10_TableWellFormed ==
  /\ Len(list) = 12
  /\ list[1][2] = Lit(0, 1, -15) /\ list[12][2] = Lit(0, 1, 18)
  /\ \A i \in 1..11 :
       /\ Flt(list[i][2], list[i + 1][2])
       /\ list[i + 1][2] = Fmul(list[i][2], Lit(0, 1000, 0))
  /\ Cardinality({list[i][1] : i \in 1..12}) = 12
  /\ {i \in 1..12 : Feq(list[i][2], One)} = {6}
  /\ list[6][1] = "C" /\ list[6][1] = get_base_units_name(a)
  /\ as_base_units(a) = as_coulombs(a)
  /\ from_base_units(xa) = from_coulombs(xa)
  /\ op = "get_base_units_name" => res.sym = list[6][1]
  /\ op = "as_base_units" => res.f = as_coulombs(a)
  /\ op = "from_base_units" => res.f = as_coulombs(from_coulombs(xa))

\* the base unit's name is the symbol of the row of multiplier 1
C10_Witness ==
  /\ op = "get_base_units_name"
  /\ res.sym = "C"
  /\ list[6] = <<"C", One>>

\* the result of each comparison is that of the base-unit values
CompareBaseUnits ==
  /\ op = "eq" => res.t = Feq(as_base_units(a), as_base_units(b))
  /\ op = "ne" => res.t = ~Feq(as_base_units(a), as_base_units(b))
  /\ op = "lt" => res.t = Flt(as_base_units(a), as_base_units(b))
  /\ op = "le" => res.t = Fle(as_base_units(a), as_base_units(b))
  /\ op = "gt" => res.t = Flt(as_base_units(b), as_base_units(a))
  /\ op = "ge" => res.t = Fle(as_base_units(b), as_base_units(a))

\* 2 C against 4 C: <, <= true and >, >= false
Compare2And4 ==
  ua = "C" /\ xa = Lit(0, 2, 0) /\ ub = "C" /\ xb = Lit(0, 4, 0) =>
    /\ op \in {"lt", "le", "ne"} => res.t
    /\ op \in {"gt", "ge", "eq"} => ~res.t

\* a = from_coulombs(10 * v), b = from_abcoulombs(v)
TenfoldPair == ua = "C" /\ ub = "abC" /\ xa = Fmul(Ten, xb)
\* a = from_coulombs(v), b = from_abcoulombs(v)
SameNumberPair == ua = "C" /\ ub = "abC" /\ xa = xb

\* C3 as stated: the comparisons of two Charges are those of their base-unit
\* values; from_coulombs(10*v) == from_abcoulombs(v) for every v, and
\* from_coulombs(v) != from_abcoulombs(v) for every nonzero v.
C3_AsStated ==
  /\ CompareBaseUnits
  /\ Compare2And4
  /\ TenfoldPair /\ op = "eq" => res.t
  /\ SameNumberPair /\ ~IsZero(xb) /\ op = "ne" => res.t

\* C3 amended: the comparisons of two Charges are those of their base-unit
\* values; from_coulombs(10*v) == from_abcoulombs(v) for every v that is not
\* NaN, and from_coulombs(v) != from_abcoulombs(v) for every v that is
\* nonzero and not infinite.
C3_Comparisons ==
  /\ CompareBaseUnits
  /\ Compare2And4
  /\ TenfoldPair /\ ~IsNaN(xb) /\ op = "eq" => res.t
  /\ SameNumberPair /\ ~IsZero(xb) /\ ~IsInf(xb) /\ op = "ne" => res.t

\* 20 C and 2 abC compare equal
C3_Witness ==
  /\ TenfoldPair /\ xb = Lit(0, 2, 0)
  /\ op = "eq" /\ res.t

\* the accessor of the unit the operand a was constructed in has been called
RoundTrip ==
  \/ ua = "C" /\ op = "as_coulombs"
  \/ ua = "abC" /\ op = "as_abcoulombs"
  \/ ua = "statC" /\ op = "as_statcoulombs"

\* C4 as stated: for every finite x and each unit U, from_U(x).as_U()
\* equals x within tolerance.
C4_AsStated == RoundTrip /\ IsFinite(xa) => Same(res.f, xa)

\* C4 amended: for every finite x and each unit U, from_U(x).as_U() equals x
\* within tolerance provided x is zero, or the coulomb value from_U(x) is a
\* normal number (the conversion neither overflowed nor underflowed) and
\* as_U() of it did not overflow.
C4_RoundTrip ==
  RoundTrip /\ IsFinite(xa) =>
    /\ IsZero(xa) => IsZero(res.f)
    /\ IsNormal(a.coulombs) /\ IsFinite(res.f) => Same(res.f, xa)
    /\ ua = "C" => res.f = xa

\* a value in statC comes back through a rounded coulomb value, not
\* exactly but within tolerance
C4_Witness ==
  /\ ua = "statC" /\ op = "as_statcoulombs"
  /\ IsNormal(xa) /\ IsNormal(a.coulombs)
  /\ res.f # xa
  /\ Same(res.f, xa)

AddSubBaseUnits ==
  /\ op = "add" => res.f = Fadd(a.coulombs, b.coulombs)
  /\ op = "sub" => res.f = Fsub(a.coulombs, b.coulombs)
  /\ ua = "C" /\ xa = Lit(0, 20, 0) /\ ub = "abC" /\ xb = Lit(0, 4, 0)
       /\ op = "add" => Same(res.f, Lit(0, 60, 0))
  /\ ua = "abC" /\ xa = Lit(0, 20, 0) /\ ub = "C" /\ xb = Lit(0, 150, 0)
       /\ op = "sub" => Same(res.f, Lit(0, 50, 0))

\* C6 as stated, taken for finite a and b alone: (a + b) and (a - b) have the
\* sum and the difference of the base-unit values, and a + b - b equals a.
C6_AsStated ==
  /\ AddSubBaseUnits
  /\ op = "add_sub" /\ IsFinite(a.coulombs) /\ IsFinite(b.coulombs)
       => Same(res.f, a.coulombs)

\* C6 amended: (a + b) and (a - b) have the sum and the difference of the
\* base-unit values; a + b - b equals a within tolerance when a and b are
\* finite, b's magnitude is not above a's and neither a + b nor the
\* subtraction overflows.
C6_AddSub ==
  /\ AddSubBaseUnits
  /\ op = "add_sub" /\ IsFinite(a.coulombs) /\ IsFinite(b.coulombs)
       /\ Fle(Fabs(b.coulombs), Fabs(a.coulombs))
       /\ IsFinite(Fadd(a.coulombs, b.coulombs)) /\ IsFinite(res.f)
       => Same(res.f, a.coulombs)

\* 10000 statC + 2 statC - 2 statC
C6_Witness ==
  /\ op = "add_sub"
  /\ ua = "statC" /\ xa = Lit(0, 10000, 0) /\ ub = "statC" /\ xb = Lit(0, 2, 0)
  /\ Same(res.f, a.coulombs)

\* the products and the quotient by a scalar k are those of the base-unit value
ScaleBaseUnits ==
  /\ op \in {"mul", "rmul"} => res.f = Fmul(k, a.coulombs)
  /\ op = "divf" => res.f = Fdiv(a.coulombs, k)

\* C7 as stated, taken for finite a and k alone: k * a == a * k, both of
\* base-unit value k * a.as_base_units(); a / k has base-unit value
\* a.as_base_units() / k; a * k / k equals a for every nonzero k.
C7_AsStated ==
  /\ ScaleBaseUnits
  /\ IsFinite(a.coulombs) /\ IsFinite(k) =>
       /\ op = "rmul" => Eq(Charge(res.f), MulF(a, k))
       /\ op = "mul_div" /\ ~IsZero(k) => Same(res.f, a.coulombs)

\* C7 amended: k * a and a * k have the same base-unit value k *
\* a.as_base_units(), and compare == unless that value is NaN; a / k has
\* base-unit value a.as_base_units() / k; a * k / k equals a within
\* tolerance for finite a and finite nonzero k when a is zero, or a * k is a
\* normal number and dividing it by k does not overflow.
C7_Scalar ==
  /\ ScaleBaseUnits
  /\ op = "rmul" => res.f = MulF(a, k).coulombs
  /\ op = "rmul" /\ ~IsNaN(res.f) => Eq(Charge(res.f), MulF(a, k))
  /\ op = "mul_div" /\ IsFinite(a.coulombs) /\ IsFinite(k) /\ ~IsZero(k) =>
       /\ IsZero(a.coulombs) => IsZero(res.f)
       /\ IsNormal(Fmul(a.coulombs, k)) /\ IsFinite(res.f)
            => Same(res.f, a.coulombs)

\* 1.234 abC * 0.3 / 0.3
C7_Witness ==
  /\ op = "mul_div"
  /\ ua = "abC" /\ xa = Lit(0, 1234, -3) /\ k = Lit(0, 3, -1)
  /\ Same(res.f, a.coulombs)

\* a and b constructed in the same unit
SameUnit == ua = ub

\* the quotient of two Charges is that of the base-unit values; 2 abC / 40 C
\* is 0.5
DivBaseUnits ==
  /\ op = "div" => res.f = Fdiv(a.coulombs, b.coulombs)
  /\ ua = "abC" /\ xa = Lit(0, 2, 0) /\ ub = "C" /\ xb = Lit(0, 40, 0)
       /\ op = "div" => res.f = Lit(0, 5, -1)

\* C8 as stated, taken for finite x and y alone: from_U(x) / from_U(y) =
\* x / y for every x, every nonzero y and every unit U.
C8_AsStated ==
  /\ DivBaseUnits
  /\ op = "div" /\ SameUnit /\ IsFinite(xa) /\ IsFinite(xb) /\ ~IsZero(xb)
       => Same(res.f, Fdiv(xa, xb))

\* C8 amended: a / b is the quotient of the base-unit values; from_U(x) /
\* from_U(y) = x / y within tolerance for finite x and finite nonzero y when
\* from_U(y) is a normal number, from_U(x) is normal or x is zero, and x / y
\* is normal or zero (no conversion and no quotient overflowed or underflowed).
C8_Ratio ==
  /\ DivBaseUnits
  /\ op = "div" /\ SameUnit /\ IsFinite(xa) /\ IsFinite(xb) /\ ~IsZero(xb)
       /\ IsNormal(b.coulombs)
       /\ (IsNormal(a.coulombs) \/ IsZero(xa))
       /\ (IsNormal(Fdiv(xa, xb)) \/ IsZero(xa))
       => Same(res.f, Fdiv(xa, xb))

\* 1.234 statC / 40 statC
C8_Witness ==
  /\ op = "div"
  /\ ua = "statC" /\ ub = "statC" /\ xa = Lit(0, 1234, -3) /\ xb = Lit(0, 40, 0)
  /\ Same(res.f, Fdiv(xa, xb))

\* C9: no accessor, comparison or arithmetic operator changes the stored
\* coulombs value of an operand.
C9_Immutable == [][a' = a /\ b' = b]_vars

\* after a * k / k the operand a is as constructed and differs from the result
C9_Witness ==
  /\ op = "mul_div"
  /\ a = Construct(ua, xa) /\ b = Construct(ub, xb)
  /\ res.f # a.coulombs

====
